---- MODULE Spec2Model ----
(***************************************************************************)
(* Model of network_analysis: the metrics of analysis.py and the five      *)
(* attack strategies of NetworkDismantling (dismantling.py).               *)
(*                                                                         *)
(* A graph is an undirected simple nx.Graph: a record                      *)
(*   [nodes : set of node ids, edges : set of <<u, v>> with u < v,         *)
(*    wt : edge -> value of the edge attribute "weight"].                  *)
(* Iteration order of nodes is ascending id and of edges lexicographic     *)
(* (the insertion order of a graph built node by node, edge by edge).      *)
(* Floats are modelled as exact reduced fractions <<num, den>>.            *)
(* A Python call either returns or raises: [exc |-> "", val |-> v] or      *)
(* [exc |-> "<ExceptionName>", val |-> 0].                                 *)
(***************************************************************************)
EXTENDS Integers, Sequences, FiniteSets, TLC

\* ---------------------------------------------------------------- bounds
MaxNodes == 3
MaxWeight == 2
MaxBudget == 4

\* ------------------------------------------------------------- arithmetic
RECURSIVE GCD(_, _)
GCD(a, b) == IF b = 0 THEN a ELSE GCD(b, a % b)

LCM(a, b) == (a * b) \div GCD(a, b)

RECURSIVE LCMOf(_)
LCMOf(S) ==
    IF S = {} THEN 1
    ELSE LET x == CHOOSE y \in S : TRUE IN LCM(x, LCMOf(S \ {x}))

Frac(n, d) ==
    IF n = 0 THEN <<0, 1>>
    ELSE LET g == GCD(n, d) IN <<n \div g, d \div g>>

FracLess(a, b) == a[1] * b[2] < b[1] * a[2]

SetMax(S) == CHOOSE x \in S : \A y \in S : y <= x

SetMin(S) == CHOOSE x \in S : \A y \in S : x <= y

RECURSIVE SortedSeq(_)
SortedSeq(S) ==
    IF S = {} THEN <<>>
    ELSE LET x == SetMin(S) IN <<x>> \o SortedSeq(S \ {x})

Range(s) == {s[k] : k \in DOMAIN s}

Ok(v) == [exc |-> "", val |-> v]

Raise(e) == [exc |-> e, val |-> 0]

\* ------------------------------------------------------- graph capability
None == "None"

EdgeLess(e, f) == e[1] < f[1] \/ (e[1] = f[1] /\ e[2] < f[2])

RECURSIVE SortedEdges(_)
SortedEdges(S) ==
    IF S = {} THEN <<>>
    ELSE LET x == CHOOSE e \in S : \A f \in S \ {e} : EdgeLess(e, f)
         IN <<x>> \o SortedEdges(S \ {x})

NodeList(G) == SortedSeq(G.nodes)

EdgeList(G) == SortedEdges(G.edges)

Neighbors(G, v) ==
    {u \in G.nodes : <<u, v>> \in G.edges \/ <<v, u>> \in G.edges}

EdgeOf(u, v) == IF u < v THEN <<u, v>> ELSE <<v, u>>

\* the length of one edge under the weight argument (None: one hop)
EdgeLen(G, e, weight) == IF weight = None THEN 1 ELSE G.wt[e]

remove_node(G, v) ==
    LET keep == {e \in G.edges : e[1] # v /\ e[2] # v}
    IN [nodes |-> G.nodes \ {v},
        edges |-> keep,
        wt |-> [e \in keep |-> G.wt[e]]]

remove_edge(G, u, v) ==
    LET keep == G.edges \ {EdgeOf(u, v)}
    IN [nodes |-> G.nodes,
        edges |-> keep,
        wt |-> [e \in keep |-> G.wt[e]]]

\* nx.connected_components: the node sets, in order of their first node
RECURSIVE Closure(_, _)
Closure(G, S) ==
    LET T == S \cup UNION {Neighbors(G, v) : v \in S}
    IN IF T = S THEN S ELSE Closure(G, T)

RECURSIVE ComponentsFrom(_, _)
ComponentsFrom(G, left) ==
    IF left = {} THEN <<>>
    ELSE LET c == Closure(G, {SetMin(left)})
         IN <<c>> \o ComponentsFrom(G, left \ c)

connected_components(G) == ComponentsFrom(G, G.nodes)

\* nx.single_source_shortest_path_length: breadth-first levels from source
RECURSIVE BFSLevels(_, _, _, _)
BFSLevels(G, frontier, dist, level) ==
    IF frontier = {} THEN dist
    ELSE LET seen == DOMAIN dist \cup frontier
             d2 == [v \in seen |-> IF v \in DOMAIN dist THEN dist[v] ELSE level]
             nxt == UNION {Neighbors(G, v) : v \in frontier} \ seen
         IN BFSLevels(G, nxt, d2, level + 1)

single_source_shortest_path_length(G, source) ==
    BFSLevels(G, {source}, [v \in {} |-> 0], 0)

\* nx.single_source_dijkstra_path_length: settle the closest tentative node
RECURSIVE DijkstraLoop(_, _, _, _)
DijkstraLoop(G, weight, final, tent) ==
    IF DOMAIN tent = {} THEN final
    ELSE LET v == CHOOSE x \in DOMAIN tent :
                      \A y \in DOMAIN tent : tent[x] <= tent[y]
             dv == tent[v]
             done == DOMAIN final \cup {v}
             f2 == [x \in done |-> IF x = v THEN dv ELSE final[x]]
             cand == (DOMAIN tent \cup Neighbors(G, v)) \ done
             t2 == [x \in cand |->
                      LET via == dv + EdgeLen(G, EdgeOf(v, x), weight)
                      IN IF x \in Neighbors(G, v)
                         THEN IF x \in DOMAIN tent /\ tent[x] <= via
                              THEN tent[x] ELSE via
                         ELSE tent[x]]
         IN DijkstraLoop(G, weight, f2, t2)

single_source_dijkstra_path_length(G, source, weight) ==
    DijkstraLoop(G, weight, [v \in {} |-> 0], [v \in {source} |-> 0])

\* ------------------------------------------------- metrics (analysis.py)
\* sorted(pairs, key=operator.itemgetter(1), reverse=True): stable, so equal
\* keys keep their iteration order
RECURSIVE InsertDesc(_, _)
InsertDesc(x, s) ==
    IF s = <<>> THEN <<x>>
    ELSE IF FracLess(Head(s)[2], x[2]) THEN <<x>> \o s
    ELSE <<Head(s)>> \o InsertDesc(x, Tail(s))

\* sorted() without reverse=True: ascending
RECURSIVE InsertAsc(_, _)
InsertAsc(x, s) ==
    IF s = <<>> THEN <<x>>
    ELSE IF FracLess(x[2], Head(s)[2]) THEN <<x>> \o s
    ELSE <<Head(s)>> \o InsertAsc(x, Tail(s))

RECURSIVE sorted_ascending(_)
sorted_ascending(s) ==
    IF s = <<>> THEN <<>>
    ELSE InsertAsc(s[Len(s)], sorted_ascending(SubSeq(s, 1, Len(s) - 1)))

RECURSIVE sorted_reverse(_)
sorted_reverse(s) ==
    IF s = <<>> THEN <<>>
    ELSE InsertDesc(s[Len(s)], sorted_reverse(SubSeq(s, 1, Len(s) - 1)))

\* dict.items() of a dict keyed in the order of the sequence keys
Items(keys, d) == [k \in DOMAIN keys |-> <<keys[k], d[keys[k]]>>]

\* every simple path that extends path to t
RECURSIVE PathsFrom(_, _, _)
PathsFrom(G, path, t) ==
    LET last == path[Len(path)]
    IN IF last = t THEN {path}
       ELSE UNION {PathsFrom(G, Append(path, v), t) :
                     v \in Neighbors(G, last) \ Range(path)}

RECURSIVE PathLen(_, _, _)
PathLen(G, p, weight) ==
    IF Len(p) < 2 THEN 0
    ELSE EdgeLen(G, EdgeOf(p[1], p[2]), weight) + PathLen(G, Tail(p), weight)

ShortestPaths(G, s, t, weight) ==
    LET ps == PathsFrom(G, <<s>>, t)
    IN IF ps = {} THEN {}
       ELSE LET m == SetMin({PathLen(G, p, weight) : p \in ps})
            IN {p \in ps : PathLen(G, p, weight) = m}

OrderedPairs(G) == {st \in G.nodes \X G.nodes : st[1] # st[2]}

\* <<pair, its shortest paths>> for every ordered pair of distinct nodes
AllShortestPaths(G, weight) ==
    {<<st, ShortestPaths(G, st[1], st[2], weight)>> : st \in OrderedPairs(G)}

RECURSIVE SumOver(_, _)
SumOver(S, f) ==
    IF S = {} THEN 0
    ELSE LET x == CHOOSE y \in S : TRUE IN f[x] + SumOver(S \ {x}, f)

PathUsesEdge(p, e) ==
    \E k \in 1..(Len(p) - 1) : EdgeOf(p[k], p[k + 1]) = e

\* nx.betweenness_centrality(G, weight=weight): normalized, no endpoints
nx_betweenness_centrality(G, weight) ==
    LET n == Cardinality(G.nodes)
        linked == {sp \in AllShortestPaths(G, weight) : sp[2] # {}}
        L == LCMOf({Cardinality(sp[2]) : sp \in linked})
        scale == IF n <= 2 THEN 1 ELSE (n - 1) * (n - 2)
    IN [v \in G.nodes |->
          LET through == {sp \in linked : sp[1][1] # v /\ sp[1][2] # v}
              part == [sp \in through |->
                         Cardinality({p \in sp[2] : v \in Range(p)})
                           * (L \div Cardinality(sp[2]))]
          IN Frac(SumOver(through, part), L * scale)]

\* nx.edge_betweenness_centrality(G, weight=weight): normalized
nx_edge_betweenness_centrality(G, weight) ==
    LET n == Cardinality(G.nodes)
        linked == {sp \in AllShortestPaths(G, weight) : sp[2] # {}}
        L == LCMOf({Cardinality(sp[2]) : sp \in linked})
        scale == IF n <= 1 THEN 1 ELSE n * (n - 1)
    IN [e \in G.edges |->
          LET part == [sp \in linked |->
                         Cardinality({p \in sp[2] : PathUsesEdge(p, e)})
                           * (L \div Cardinality(sp[2]))]
          IN Frac(SumOver(linked, part), L * scale)]

\* nx.degree_centrality(G)
nx_degree_centrality(G) ==
    LET n == Cardinality(G.nodes)
    IN [v \in G.nodes |->
          IF n <= 1 THEN <<1, 1>>
          ELSE Frac(Cardinality(Neighbors(G, v)), n - 1)]

degree_centrality(G, weight) ==
    sorted_reverse(Items(NodeList(G), nx_degree_centrality(G)))

betweenness_centrality(G, weight) ==
    sorted_reverse(Items(NodeList(G), nx_betweenness_centrality(G, weight)))

edge_betweenness_centrality(G, weight) ==
    sorted_reverse(Items(EdgeList(G), nx_edge_betweenness_centrality(G, weight)))

\* nx.articulation_points yields each cut vertex once, in the discovery order
\* of its depth-first search: every ordering of the cut vertices
IsCutVertex(G, v) ==
    Len(connected_components(remove_node(G, v))) > Len(connected_components(G))

\* every node of degree two or more taken for a cut vertex
articulation_points_by_degree(G) ==
    LET cut == {v \in G.nodes : Cardinality(Neighbors(G, v)) >= 2}
    IN {s \in [1..Cardinality(cut) -> cut] :
          \A a, b \in DOMAIN s : a # b => s[a] # s[b]}

articulation_points(G) ==
    LET cut == {v \in G.nodes : IsCutVertex(G, v)}
    IN {s \in [1..Cardinality(cut) -> cut] :
          \A a, b \in DOMAIN s : a # b => s[a] # s[b]}

\* the number of components taken for the size of the largest one
number_connected_components(G) ==
    LET cc == connected_components(G)
    IN IF Len(cc) = 0 THEN Raise("ValueError") ELSE Ok(Len(cc))

\* len(max(nx.connected_components(G), key=len)): max() of an empty
\* iterable raises ValueError
largest_connected_component(G) ==
    LET cc == connected_components(G)
    IN IF Len(cc) = 0 THEN Raise("ValueError")
       ELSE Ok(SetMax({Cardinality(cc[k]) : k \in DOMAIN cc}))

second_largest_connected_component(G) ==
    LET cc == connected_components(G)
        ranked == sorted_reverse([k \in DOMAIN cc |->
                                    <<cc[k], <<Cardinality(cc[k]), 1>>>>])
        slcc == [k \in DOMAIN ranked |-> Cardinality(ranked[k][1])]
    IN IF Len(slcc) > 1 THEN slcc[2] ELSE 0

\* the sum normalised by n * n instead of n * (n - 1)
global_efficiency_n_squared(G, weight) ==
    LET n == Cardinality(G.nodes)
    IN IF n < 2 THEN <<0, 1>>
       ELSE LET nonzero == UNION {
                    LET dij == IF weight = None
                               THEN single_source_shortest_path_length(G, node)
                               ELSE single_source_dijkstra_path_length(G, node, weight)
                    IN {<<node, t, dij[t]>> : t \in {x \in DOMAIN dij : dij[x] # 0}}
                    : node \in G.nodes}
                L == LCMOf({r[3] : r \in nonzero})
                inv_d == [r \in nonzero |-> L \div r[3]]
            IN Frac(SumOver(nonzero, inv_d), L * (n * n))

global_efficiency(G, weight) ==
    LET n == Cardinality(G.nodes)
    IN IF n < 2 THEN <<0, 1>>
       ELSE LET \* <<node, target, d>> for every d of every dij that is not 0
                nonzero == UNION {
                    LET dij == IF weight = None
                               THEN single_source_shortest_path_length(G, node)
                               ELSE single_source_dijkstra_path_length(G, node, weight)
                    IN {<<node, t, dij[t]>> : t \in {x \in DOMAIN dij : dij[x] # 0}}
                    : node \in G.nodes}
                L == LCMOf({r[3] : r \in nonzero})
                inv_d == [r \in nonzero |-> L \div r[3]]
            IN Frac(SumOver(nonzero, inv_d), L * (n * (n - 1)))

\* ------------------------------------------------------------------ state
\* heap: the graph objects, by reference; "self.graph" is the caller's graph
\* held by NetworkDismantling and NetworkAnalysis, "copy" the object made by
\* the latest get_graph.  The other variables are the frame of the call in
\* progress (or of the call that ended last): its arguments, its locals and
\* pc/exc/ret, how it ended.  source is the graph as it was at construction.
VARIABLES heap, source, pc, exc, ret, strategy, centrality_method, budget,
          weight, nattacks, graph_attacked, ap, i, removed, centrality,
          lcc, slcc, eff

vars == <<heap, source, pc, exc, ret, strategy, centrality_method, budget,
          weight, nattacks, graph_attacked, ap, i, removed, centrality,
          lcc, slcc, eff>>

NoGraph == [nodes |-> {}, edges |-> {}, wt |-> <<>>]

NoReturn == [method |-> None, value |-> 0]

AllEdges(n) == {e \in (1..n) \X (1..n) : e[1] < e[2]}

WeightScheme(E, k) == [e \in E |-> 1 + ((e[1] + e[2] + k) % MaxWeight)]

\* two triangles sharing vertex 3
Bowtie ==
    LET E == {<<1, 2>>, <<1, 3>>, <<2, 3>>, <<3, 4>>, <<3, 5>>, <<4, 5>>}
    IN [nodes |-> 1..5, edges |-> E, wt |-> [e \in E |-> 1]]

\* the path 1-2-3-4, with two articulation points
PathOfFour ==
    LET E == {<<1, 2>>, <<2, 3>>, <<3, 4>>}
    IN [nodes |-> 1..4, edges |-> E, wt |-> [e \in E |-> 1]]

SourceGraphs ==
    {[nodes |-> 1..n, edges |-> E, wt |-> WeightScheme(E, k)] :
        n \in 0..MaxNodes, E \in SUBSET AllEdges(MaxNodes), k \in 0..(MaxWeight - 1)}
    \cup {Bowtie, PathOfFour}

WellFormed(G) == \A e \in G.edges : e[1] \in G.nodes /\ e[2] \in G.nodes

Budgets == (0 - 1)..MaxBudget

Weights == {None, "weight"}

NodeCentralities == {"betweenness_centrality", "degree_centrality"}

CallCentrality(method, G, w) ==
    CASE method = "betweenness_centrality" -> betweenness_centrality(G, w)
      [] method = "degree_centrality" -> degree_centrality(G, w)
      [] method = "edge_betweenness_centrality" -> edge_betweenness_centrality(G, w)

Init ==
    /\ source \in {G \in SourceGraphs : WellFormed(G)}
    /\ heap = [r \in {"self.graph", "copy"} |->
                 IF r = "self.graph" THEN source ELSE NoGraph]
    /\ pc = "ready"
    /\ exc = ""
    /\ ret = NoReturn
    /\ strategy = None
    /\ centrality_method = None
    /\ budget = 0
    /\ weight = None
    /\ nattacks = 0
    /\ graph_attacked = None
    /\ ap = <<>>
    /\ i = 0
    /\ removed = <<>>
    /\ centrality = <<>>
    /\ lcc = <<>>
    /\ slcc = <<>>
    /\ eff = <<>>

\* get_graph without the deep copy: the working graph is the caller's object
get_graph_alias(h, self) == [ref |-> self, heap |-> h]

\* NetworkDismantling.get_graph: a deep copy, a new object
get_graph(h, self) ==
    [ref |-> "copy", heap |-> [h EXCEPT !["copy"] = h[self]]]

\* the clamp taken against the node count instead of the edge count
ClampToNodes(n, G) ==
    LET n1 == IF n < 1 THEN 1 ELSE n
    IN IF n1 > Cardinality(G.nodes) THEN Cardinality(G.nodes) ELSE n1

\* the budget clamp of the node, edge and random strategies
ClampToEdges(n, G) ==
    LET n1 == IF n < 1 THEN 1 ELSE n
    IN IF n1 > Cardinality(G.edges) THEN Cardinality(G.edges) ELSE n1

\* the zero-th measurement; the lists assigned before the statement that
\* raises keep their values, the later ones are never assigned
FirstMeasure(g, w) ==
    LET m == largest_connected_component(g)
    IN IF m.exc # ""
       THEN /\ pc' = "raised"
            /\ exc' = m.exc
            /\ lcc' = <<>>
            /\ slcc' = <<>>
            /\ eff' = <<>>
       ELSE /\ pc' = "running"
            /\ exc' = ""
            /\ lcc' = <<m.val>>
            /\ slcc' = <<second_largest_connected_component(g)>>
            /\ eff' = <<global_efficiency(g, w)>>

\* lines 75-86, 117-128, 181-191, 210-220: clamp, copy, zero-th measurement
BeginClamped(s, method, n, w) ==
    /\ pc = "ready"
    /\ LET cp == get_graph(heap, "self.graph")
       IN /\ heap' = cp.heap
          /\ graph_attacked' = cp.ref
          /\ FirstMeasure(cp.heap[cp.ref], w)
    /\ nattacks' = ClampToEdges(n, heap["self.graph"])
    /\ strategy' = s
    /\ centrality_method' = method
    /\ budget' = n
    /\ weight' = w
    /\ removed' = <<0>>
    /\ centrality' = IF method = None THEN <<>> ELSE <<0>>
    /\ ap' = <<>>
    /\ i' = 0
    /\ ret' = NoReturn
    /\ UNCHANGED source

\* the remeasurement that ends a loop iteration, after element was removed
\* from the working graph (now g2) and appended to the removed list
Remeasure(g2, element, score) ==
    LET m == largest_connected_component(g2)
    IN /\ heap' = [heap EXCEPT ![graph_attacked] = g2]
       /\ removed' = Append(removed, element)
       /\ IF m.exc # ""
          THEN /\ pc' = "raised"
               /\ exc' = m.exc
               /\ UNCHANGED <<lcc, slcc, eff, centrality, i>>
          ELSE /\ lcc' = Append(lcc, m.val)
               /\ slcc' = Append(slcc, second_largest_connected_component(g2))
               /\ eff' = Append(eff, global_efficiency(g2, weight))
               /\ centrality' = IF centrality_method = None THEN centrality
                                ELSE Append(centrality, score)
               /\ i' = i + 1
               /\ UNCHANGED <<pc, exc>>

\* a statement of the loop body raises before anything is removed
RaiseInLoop(e) ==
    /\ pc' = "raised"
    /\ exc' = e
    /\ UNCHANGED <<heap, removed, lcc, slcc, eff, centrality, i>>

\* graph_attacked.remove_node(node) and the rest of the loop body;
\* nx raises NetworkXError when the node is not in the graph
RemoveNodeAndRemeasure(g, node, score) ==
    IF node \notin g.nodes THEN RaiseInLoop("NetworkXError")
    ELSE Remeasure(remove_node(g, node), node, score)

\* graph_attacked.remove_edge(edge[0], edge[1]) and the rest of the loop
\* body; nx raises NetworkXError when the edge is not in the graph
RemoveEdgeAndRemeasure(g, edge, score) ==
    IF EdgeOf(edge[1], edge[2]) \notin g.edges THEN RaiseInLoop("NetworkXError")
    ELSE Remeasure(remove_edge(g, edge[1], edge[2]), edge, score)

Frame == <<source, ret, strategy, centrality_method, budget, weight,
           nattacks, graph_attacked, ap>>

InLoop(s) == pc = "running" /\ strategy = s /\ i < nattacks

node_iterative_centrality_attack(n, w, method) ==
    BeginClamped("node_iterative_centrality_attack", method, n, w)

node_iterative_centrality_attack_step ==
    /\ InLoop("node_iterative_centrality_attack")
    /\ LET g == heap[graph_attacked]
           bc == CallCentrality(centrality_method, g, weight)
       IN IF Len(bc) = 0 THEN RaiseInLoop("IndexError")
          ELSE RemoveNodeAndRemeasure(g, bc[1][1], bc[1][2])
    /\ UNCHANGED Frame

edge_iterative_centrality_attack(n, w, method) ==
    BeginClamped("edge_iterative_centrality_attack", method, n, w)

edge_iterative_centrality_attack_step ==
    /\ InLoop("edge_iterative_centrality_attack")
    /\ LET g == heap[graph_attacked]
           bc == CallCentrality(centrality_method, g, weight)
       IN IF Len(bc) = 0 THEN RaiseInLoop("IndexError")
          ELSE RemoveEdgeAndRemeasure(g, bc[1][1], bc[1][2])
    /\ UNCHANGED Frame

random_attack(n, w) == BeginClamped("random_attack", None, n, w)

\* the sample drawn from the nodes of self.graph instead of the working copy
random_attack_step_from_source ==
    /\ InLoop("random_attack")
    /\ LET g == heap[graph_attacked]
       IN IF heap["self.graph"].nodes = {} THEN RaiseInLoop("ValueError")
          ELSE \E node \in heap["self.graph"].nodes :
                  RemoveNodeAndRemeasure(g, node, 0)
    /\ UNCHANGED Frame

random_attack_step ==
    /\ InLoop("random_attack")
    /\ LET g == heap[graph_attacked]
       IN IF g.nodes = {} THEN RaiseInLoop("ValueError")
          ELSE \E node \in g.nodes : RemoveNodeAndRemeasure(g, node, 0)
    /\ UNCHANGED Frame

edge_random_attack(n, w) == BeginClamped("edge_random_attack", None, n, w)

edge_random_attack_step ==
    /\ InLoop("edge_random_attack")
    /\ LET g == heap[graph_attacked]
       IN IF g.edges = {} THEN RaiseInLoop("ValueError")
          ELSE \E edge \in g.edges : RemoveEdgeAndRemeasure(g, edge, 0)
    /\ UNCHANGED Frame

\* lines 151-163: copy, articulation points, clamp, zero-th measurement;
\* len(graph_attacked.nodes, weight) raises TypeError (len takes one argument)
articulation_point_targeted_attack(n, w) ==
    /\ pc = "ready"
    /\ LET cp == get_graph(heap, "self.graph")
           g == cp.heap[cp.ref]
           n1 == IF n < 1 THEN 1 ELSE n
       IN /\ heap' = cp.heap
          /\ graph_attacked' = cp.ref
          /\ \E points \in articulation_points(g) : ap' = points
          /\ IF n1 > Cardinality(g.nodes)
             THEN /\ pc' = "raised"
                  /\ exc' = "TypeError"
                  /\ nattacks' = n1
                  /\ lcc' = <<>>
                  /\ slcc' = <<>>
                  /\ eff' = <<>>
             ELSE /\ nattacks' = n1
                  /\ FirstMeasure(g, None)
    /\ strategy' = "articulation_point_targeted_attack"
    /\ centrality_method' = None
    /\ budget' = n
    /\ weight' = w
    /\ removed' = <<>>
    /\ centrality' = <<>>
    /\ i' = 0
    /\ ret' = NoReturn
    /\ UNCHANGED source

articulation_point_targeted_attack_step ==
    /\ InLoop("articulation_point_targeted_attack")
    /\ LET g == heap[graph_attacked]
       IN IF i + 1 > Len(ap) THEN RaiseInLoop("IndexError")
          ELSE RemoveNodeAndRemeasure(g, ap[i + 1], 0)
    /\ UNCHANGED Frame

\* the return statement of an attack: the loop has run nattacks times
Return ==
    /\ pc = "running"
    /\ i = nattacks
    /\ pc' = "done"
    /\ UNCHANGED <<heap, source, exc, ret, strategy, centrality_method, budget,
                   weight, nattacks, graph_attacked, ap, i, removed,
                   centrality, lcc, slcc, eff>>

\* a NetworkAnalysis method on the same graph
AnalysisCall(name, w, result) ==
    /\ pc = "ready"
    /\ pc' = IF result.exc # "" THEN "raised" ELSE "returned"
    /\ exc' = result.exc
    /\ ret' = [method |-> name, value |-> result.val]
    /\ weight' = w
    /\ UNCHANGED <<heap, source, strategy, centrality_method, budget, nattacks,
                   graph_attacked, ap, i, removed, centrality, lcc, slcc, eff>>

\* the caller, between two calls: the call that returned or raised is over,
\* its frame and the working copy it owned are gone
NextCall ==
    /\ pc \in {"done", "raised", "returned"}
    /\ pc' = "ready"
    /\ heap' = [heap EXCEPT !["copy"] = NoGraph]
    /\ exc' = ""
    /\ ret' = NoReturn
    /\ strategy' = None
    /\ centrality_method' = None
    /\ budget' = 0
    /\ weight' = None
    /\ nattacks' = 0
    /\ graph_attacked' = None
    /\ ap' = <<>>
    /\ i' = 0
    /\ removed' = <<>>
    /\ centrality' = <<>>
    /\ lcc' = <<>>
    /\ slcc' = <<>>
    /\ eff' = <<>>
    /\ UNCHANGED source

NetworkAnalysis_largest_connected_component ==
    AnalysisCall("largest_connected_component", None,
                 largest_connected_component(heap["self.graph"]))

NetworkAnalysis_second_largest_connected_component ==
    AnalysisCall("second_largest_connected_component", None,
                 Ok(second_largest_connected_component(heap["self.graph"])))

NetworkAnalysis_global_efficiency(w) ==
    AnalysisCall("global_efficiency", w,
                 Ok(global_efficiency(heap["self.graph"], w)))

Next ==
    \/ \E n \in Budgets, w \in Weights, method \in NodeCentralities :
          node_iterative_centrality_attack(n, w, method)
    \/ node_iterative_centrality_attack_step
    \/ \E n \in Budgets, w \in Weights :
          edge_iterative_centrality_attack(n, w, "edge_betweenness_centrality")
    \/ edge_iterative_centrality_attack_step
    \/ \E n \in Budgets, w \in Weights : articulation_point_targeted_attack(n, w)
    \/ articulation_point_targeted_attack_step
    \/ \E n \in Budgets, w \in Weights : random_attack(n, w)
    \/ random_attack_step
    \/ \E n \in Budgets, w \in Weights : edge_random_attack(n, w)
    \/ edge_random_attack_step
    \/ Return
    \/ NetworkAnalysis_largest_connected_component
    \/ NetworkAnalysis_second_largest_connected_component
    \/ \E w \in Weights : NetworkAnalysis_global_efficiency(w)
    \/ NextCall

Spec == Init /\ [][Next]_vars

\* ----------------------------------------------------------------- claims
EdgeBudgetStrategies ==
    {"node_iterative_centrality_attack", "edge_iterative_centrality_attack",
     "random_attack", "edge_random_attack"}

NodeRemovingStrategies == {"node_iterative_centrality_attack", "random_attack"}

CentralityStrategies ==
    {"node_iterative_centrality_attack", "edge_iterative_centrality_attack"}

AttackReturned == pc = "done" /\ strategy # None

SourceEdgeCount == Cardinality(source.edges)

SourceNodeCount == Cardinality(source.nodes)

\* C1: a run of any of the five strategies that returns has removed, lcc,
\* slcc and eff of one length, steps taken + 1, and the first removed entry
\* is the sentinel 0.
C1_SeriesLengths ==
    AttackReturned =>
        /\ Len(removed) = i + 1
        /\ Len(lcc) = i + 1
        /\ Len(slcc) = i + 1
        /\ Len(eff) = i + 1
        /\ removed[1] = 0

\* C2: the graph held by NetworkDismantling is never mutated: whatever runs
\* have returned or raised, and in the middle of a run, self.graph has the
\* nodes, edges and weights it had at construction.
C2_SourceNeverMutated == heap["self.graph"] = source

\* C2 witness: a run has removed two elements from its working graph, which
\* now differs from the caller's graph.
C2_Witness ==
    /\ pc \in {"done", "raised"}
    /\ strategy # None
    /\ Len(removed) >= 3
    /\ heap[graph_attacked] # source

\* C3 as stated: the iterations of a run of the node, edge and random
\* strategies that returns are the budget clamped into [1, E]: below 1
\* becomes 1, above E becomes E, also when E = 0.
C3_ClampInto1E ==
    (AttackReturned /\ strategy \in EdgeBudgetStrategies) =>
        i = (IF budget < 1 THEN 1
             ELSE IF budget > SourceEdgeCount THEN SourceEdgeCount
             ELSE budget)

\* C3 as amended: the loop bound of the node, edge and random strategies is
\* min(max(budget, 1), E), which is 0 when E = 0; no run executes more
\* iterations than that, and a run that returns has executed exactly that many.
C3_ClampedIterations ==
    (strategy \in EdgeBudgetStrategies) =>
        LET atLeast1 == IF budget < 1 THEN 1 ELSE budget
            bound == IF atLeast1 < SourceEdgeCount THEN atLeast1
                     ELSE SourceEdgeCount
        IN /\ nattacks = bound
           /\ i <= bound
           /\ (SourceEdgeCount = 0 => nattacks = 0)
           /\ (pc = "done" => i = bound)

\* C3 witness: a run asked for more steps than the graph has edges and
\* returned after one iteration per edge.
C3_Witness ==
    /\ AttackReturned
    /\ strategy \in EdgeBudgetStrategies
    /\ SourceEdgeCount >= 2
    /\ budget > SourceEdgeCount
    /\ i = SourceEdgeCount

\* C4: articulation_point_targeted_attack on a graph with nodes never raises
\* because of the budget: a budget below 1 is treated as 1, one above the node
\* count is clamped to the node count.
C4_BudgetNeverRaises ==
    (strategy = "articulation_point_targeted_attack" /\ SourceNodeCount >= 1) =>
        /\ exc # "TypeError"
        /\ nattacks = (IF budget < 1 THEN 1
                       ELSE IF budget > SourceNodeCount THEN SourceNodeCount
                       ELSE budget)

\* C5: a run of a node-removing strategy on a graph with nodes does not fail:
\* it returns its trace when the budget is used up or the working graph has
\* become empty.
C5_NodeRunsReturn ==
    (strategy \in NodeRemovingStrategies /\ SourceNodeCount >= 1) =>
        pc # "raised"

\* C6: for every graph, the empty one included, largest_connected_component
\* returns a size that is at least second_largest_connected_component, and
\* the latter is 0 when the graph has 0 or 1 components.  Stated of the
\* calls made: the NetworkAnalysis methods on the caller's graph and the
\* pairs of measurements in a run's series.
C6_LargestAtLeastSecond ==
    LET G == heap["self.graph"]
    IN /\ (ret.method = "largest_connected_component") =>
             /\ exc = ""
             /\ ret.value >= second_largest_connected_component(G)
       /\ (ret.method = "second_largest_connected_component"
             /\ Len(connected_components(G)) <= 1) => ret.value = 0
       /\ \A k \in DOMAIN slcc : lcc[k] >= slcc[k]

\* shortest-path distance by definition: the least k with a walk of k edges
RECURSIVE WalkEnds(_, _, _)
WalkEnds(G, u, k) ==
    IF k = 0 THEN {u}
    ELSE UNION {Neighbors(G, x) : x \in WalkEnds(G, u, k - 1)}

Reachable(G, u, v) ==
    \E k \in 1..Cardinality(G.nodes) : v \in WalkEnds(G, u, k)

Distance(G, u, v) ==
    SetMin({k \in 1..Cardinality(G.nodes) : v \in WalkEnds(G, u, k)})

\* the sum of 1/d(i,j) over the ordered reachable pairs, over n(n-1)
EfficiencyByDefinition(G) ==
    LET n == Cardinality(G.nodes)
        pairs == {st \in OrderedPairs(G) : Reachable(G, st[1], st[2])}
        D == n * (n - 1)
    IN IF n < 2 THEN <<0, 1>>
       ELSE LET L == LCMOf(1..n)
                term == [st \in pairs |-> L \div Distance(G, st[1], st[2])]
            IN Frac(SumOver(pairs, term), L * D)

IsComplete(G) ==
    \A u, v \in G.nodes : u # v => EdgeOf(u, v) \in G.edges

\* C7: the unweighted global_efficiency is the sum of 1/d(i,j) over the
\* ordered pairs i # j with j reachable from i, divided by n(n-1); it is 0
\* when n < 2 and 1 on a complete graph with n >= 2.  Stated of every value
\* the program has computed without a weight: the last entry of a run's eff
\* series and the value NetworkAnalysis.global_efficiency returned.
C7_EfficiencyFormula ==
    /\ (pc \in {"running", "done"} /\ strategy # None /\ weight = None) =>
          LET g == heap[graph_attacked]
              e == eff[Len(eff)]
          IN /\ e = EfficiencyByDefinition(g)
             /\ (Cardinality(g.nodes) < 2 => e = <<0, 1>>)
             /\ (Cardinality(g.nodes) >= 2 /\ IsComplete(g) => e = <<1, 1>>)
    /\ (ret.method = "global_efficiency" /\ weight = None) =>
          LET g == heap["self.graph"]
          IN /\ ret.value = EfficiencyByDefinition(g)
             /\ (Cardinality(g.nodes) < 2 => ret.value = <<0, 1>>)
             /\ (Cardinality(g.nodes) >= 2 /\ IsComplete(g)
                   => ret.value = <<1, 1>>)

\* C7 witness: three random edge removals have left the bowtie as the path
\* 1-3-2 beside the edge 4-5 (pairs at distance 1 and 2, and unreachable
\* pairs); the efficiency recorded is 7/20.
C7_Witness ==
    /\ AttackReturned
    /\ strategy = "edge_random_attack"
    /\ weight = None
    /\ source = Bowtie
    /\ heap[graph_attacked].edges = {<<1, 3>>, <<2, 3>>, <<4, 5>>}
    /\ eff[Len(eff)] = <<7, 20>>

BowtieRun ==
    /\ AttackReturned
    /\ strategy = "articulation_point_targeted_attack"
    /\ source = Bowtie
    /\ budget = 1

\* C8 as stated: the articulation-point attack with budget 1 on the bowtie
\* removes the shared vertex first and then records largest component 3 and
\* second-largest component 3.
C8_BowtieThreeThree ==
    BowtieRun => /\ removed[1] = 3
                 /\ lcc[2] = 3
                 /\ slcc[2] = 3

\* C8 as amended: the articulation-point attack with budget 1 on the bowtie
\* removes the shared vertex first and then records largest component 2 and
\* second-largest component 2 (each triangle has lost the shared vertex).
C8_BowtieTwoTwo ==
    BowtieRun => /\ removed[1] = 3
                 /\ lcc[2] = 2
                 /\ slcc[2] = 2

\* C8 witness: that run has returned.
C8_Witness == BowtieRun /\ Len(lcc) = 2

\* the scores of the elements of g under the run's centrality method
FreshScores(g) ==
    CASE centrality_method = "betweenness_centrality" ->
             nx_betweenness_centrality(g, weight)
      [] centrality_method = "degree_centrality" -> nx_degree_centrality(g)
      [] centrality_method = "edge_betweenness_centrality" ->
             nx_edge_betweenness_centrality(g, weight)

RemovedFrom(g, element) ==
    IF strategy = "node_iterative_centrality_attack"
    THEN remove_node(g, element)
    ELSE remove_edge(g, element[1], element[2])

\* one step of a centrality attack, from the working graph g before it
C9_Step ==
    (pc = "running" /\ strategy \in CentralityStrategies
        /\ Len(removed') = Len(removed) + 1) =>
        LET g == heap[graph_attacked]
            fresh == FreshScores(g)
            element == removed'[Len(removed')]
        IN /\ element \in DOMAIN fresh
           /\ \A x \in DOMAIN fresh : ~FracLess(fresh[element], fresh[x])
           /\ <<element, fresh[element]>>
                 = CallCentrality(centrality_method, g, weight)[1]
           /\ heap'[graph_attacked] = RemovedFrom(g, element)
           /\ (i' = i + 1 =>
                 /\ Len(centrality') = Len(centrality) + 1
                 /\ centrality'[Len(centrality')] = fresh[element])

\* C9: in the node and edge centrality attacks, every step ranks the
\* elements of the current working graph afresh and removes the first of
\* that ranking, an element still present whose score is maximal; the
\* identifier and the score it appends are that element's.
C9_FreshTopRankedRemoved == [][C9_Step]_vars

\* C9 witness: the second step of a node centrality attack removed a node
\* with the score it has in the working graph, which is not the score it had
\* in the source graph.
C9_Witness ==
    /\ strategy = "node_iterative_centrality_attack"
    /\ pc \in {"running", "done"}
    /\ i >= 2
    /\ centrality[3] = FreshScores(remove_node(source, removed[2]))[removed[3]]
    /\ centrality[3] # FreshScores(source)[removed[3]]

\* C10: in every strategy the lcc, slcc and eff series of a run that returns
\* hold one entry per removal plus entry 0; entry 0 is the metric of the
\* un-mutated copy, the last entry the metric of the working graph as
\* returned, and every efficiency is computed with the caller's weight
\* argument.
C10_SeriesMeasuredWithWeight ==
    AttackReturned =>
        LET g == heap[graph_attacked]
            last == i + 1
        IN /\ Len(lcc) = last /\ Len(slcc) = last /\ Len(eff) = last
           /\ lcc[1] = largest_connected_component(source).val
           /\ slcc[1] = second_largest_connected_component(source)
           /\ eff[1] = global_efficiency(source, weight)
           /\ lcc[last] = largest_connected_component(g).val
           /\ slcc[last] = second_largest_connected_component(g)
           /\ eff[last] = global_efficiency(g, weight)

NodeStrategies ==
    {"node_iterative_centrality_attack", "random_attack",
     "articulation_point_targeted_attack"}

EdgeStrategies == {"edge_iterative_centrality_attack", "edge_random_attack"}

\* the removed list without the sentinel the clamped strategies start it with
RemovedElements ==
    IF strategy \in EdgeBudgetStrategies THEN Tail(removed) ELSE removed

\* C11: in every strategy each step removes one element that is present in
\* the working copy, so no removal of a missing element is ever raised and no
\* element is removed twice in a run; after k removals a node strategy's
\* working graph has the original node count minus k nodes, and an edge
\* strategy's has the original edge count minus k edges and the original
\* nodes; a run in its loop or returned has made one removal per step.
C11_OnePresentElementPerStep ==
    /\ exc # "NetworkXError"
    /\ (strategy # None /\ graph_attacked # None) =>
          LET g == heap[graph_attacked]
              rem == RemovedElements
              k == Len(rem)
          IN /\ \A a, b \in DOMAIN rem : a # b => rem[a] # rem[b]
             /\ (pc \in {"running", "done"} => k = i)
             /\ (strategy \in NodeStrategies =>
                   /\ Range(rem) \subseteq source.nodes
                   /\ g.nodes = source.nodes \ Range(rem)
                   /\ Cardinality(g.nodes) = SourceNodeCount - k)
             /\ (strategy \in EdgeStrategies =>
                   /\ Range(rem) \subseteq source.edges
                   /\ g.edges = source.edges \ Range(rem)
                   /\ Cardinality(g.edges) = SourceEdgeCount - k
                   /\ g.nodes = source.nodes)

\* C11 witness: the articulation-point attack has removed both cut vertices
\* of the path 1-2-3-4 in its precomputed order and returned.
C11_Witness ==
    /\ AttackReturned
    /\ strategy = "articulation_point_targeted_attack"
    /\ source = PathOfFour
    /\ i = 2
    /\ Range(removed) = {2, 3}
    /\ heap[graph_attacked].nodes = {1, 4}

\* C12: along a run of any strategy the largest-component series never
\* increases, and in a node strategy the entry after k removals is at most
\* the original node count minus k.
C12_LccNonIncreasing ==
    (strategy # None) =>
        /\ \A k \in 1..(Len(lcc) - 1) : lcc[k + 1] <= lcc[k]
        /\ (strategy \in NodeStrategies =>
              \A k \in DOMAIN lcc : lcc[k] <= SourceNodeCount - (k - 1))

\* C12 witness: a run whose largest component shrank at each of two steps.
C12_Witness ==
    /\ AttackReturned
    /\ Len(lcc) >= 3
    /\ lcc[2] < lcc[1]
    /\ lcc[3] < lcc[2]

====
